---- MODULE Spec2Model ----
(***************************************************************************)
(* Contact relay: the POST handler of the send endpoint (route.ts), the    *)
(* identifier derivation (id.ts) and the email rendering.                  *)
(*                                                                         *)
(* Text is a sequence of tokens.  A token is a one-character string for    *)
(* text that comes from a request, a directory record or the environment,  *)
(* and a longer string for a literal chunk of a template in the source.    *)
(***************************************************************************)
EXTENDS Integers, Sequences, FiniteSets, TLC

\* ---------------------------------------------------------------- bounds
\* longest free text enumerated character by character
MaxText == 2
\* send attempts counted per source address and staffId within one window
MaxWindowSends == 6
\* send attempts per window while every request body is explored
MaxBurst == 1

\* ------------------------------------------------------- program constants
StaffIdMin == 8
StaffIdMax == 128
NameMin == 1
NameMax == 120
EmailMax == 254
SubjectMax == 200
MessageMin == 1
MessageMax == 5000
HashedIdLen == 16
RateLimit == 5

\* ------------------------------------------------------------ characters
LowerCase ==
  << "a","b","c","d","e","f","g","h","i","j","k","l","m",
     "n","o","p","q","r","s","t","u","v","w","x","y","z" >>
UpperCase ==
  << "A","B","C","D","E","F","G","H","I","J","K","L","M",
     "N","O","P","Q","R","S","T","U","V","W","X","Y","Z" >>
DigitChars == << "0","1","2","3","4","5","6","7","8","9" >>
HexDigits == DigitChars \o << "a","b","c","d","e","f" >>
Whitespace == { " ", "\n", "\t" }

Range(s) == { s[i] : i \in 1..Len(s) }
Letters == Range(LowerCase) \cup Range(UpperCase)
AlphaNum == Letters \cup Range(DigitChars)

IndexOf(seq, c) == CHOOSE i \in 1..Len(seq) : seq[i] = c

\* n copies of the character c
Fill(c, n) == [ i \in 1..n |-> c ]

\* String.prototype.includes on token sequences
Contains(hay, needle) ==
  \E i \in 0..(Len(hay) - Len(needle)) :
    \A j \in 1..Len(needle) : hay[i + j] = needle[j]

\* all texts of length at most n over the character set cs
RECURSIVE TextsUpTo(_, _)
TextsUpTo(cs, n) ==
  IF n = 0 THEN { <<>> }
  ELSE LET shorter == TextsUpTo(cs, n - 1)
       IN shorter \cup { Append(t, c) : t \in shorter, c \in cs }

\* ------------------------------------------------------------------ id.ts
\* String.prototype.trim
RECURSIVE TrimLeft(_)
TrimLeft(s) ==
  IF s # <<>> /\ Head(s) \in Whitespace THEN TrimLeft(Tail(s)) ELSE s

RECURSIVE TrimRight(_)
TrimRight(s) ==
  IF s # <<>> /\ s[Len(s)] \in Whitespace
  THEN TrimRight(SubSeq(s, 1, Len(s) - 1)) ELSE s

Trim(s) == TrimRight(TrimLeft(s))

\* .replace(/\s+/g, ' ')
RECURSIVE CollapseSpaces(_)
CollapseSpaces(s) ==
  IF s = <<>> THEN <<>>
  ELSE IF Head(s) \in Whitespace
       THEN << " " >> \o CollapseSpaces(TrimLeft(s))
       ELSE << Head(s) >> \o CollapseSpaces(Tail(s))

\* .toLowerCase()
ToLowerCase(s) ==
  [ i \in 1..Len(s) |->
      IF s[i] \in Range(UpperCase)
      THEN LowerCase[IndexOf(UpperCase, s[i])] ELSE s[i] ]

\* .replace(/[^a-z]/g, '')
KeepLetters(s) == SelectSeq(s, LAMBDA c : c \in Range(LowerCase))

normalizeName(name) == KeepLetters(ToLowerCase(CollapseSpaces(Trim(name))))

\* crypto.createHmac('sha256', secret).update(msg).digest('hex'): 64 hex
\* characters, a deterministic function of the key and the message.  The
\* digest is a keyed mix of the character codes, not SHA-256 itself.
CharCode(c) ==
  IF c \in Range(LowerCase) THEN 10 + IndexOf(LowerCase, c)
  ELSE IF c \in Range(DigitChars) THEN IndexOf(DigitChars, c)
  ELSE 40

RECURSIVE Mix(_, _)
Mix(h, s) ==
  IF s = <<>> THEN h
  ELSE Mix((h * 131 + CharCode(Head(s))) % 65521, Tail(s))

HmacSha256Hex(secret, msg) ==
  LET inner == Mix(Mix(7, secret), msg)
      outer == Mix(Mix(inner, secret), msg)
  IN [ i \in 1..64 |->
         HexDigits[((((outer + i) * (inner + 2 * i + 1)) \div 7) % 16) + 1] ]

DefaultSecret ==
  << "d","e","f","a","u","l","t","-","s","e","c","r","e","t" >>

\* makeHashedId with process.env.HASH_SECRET = secret (<<>> when unset)
makeHashedId(firstName, secret) ==
  LET normalized == normalizeName(firstName)
      key == IF secret # <<>> THEN secret ELSE DefaultSecret
  IN SubSeq(HmacSha256Hex(key, normalized), 1, HashedIdLen)

\* ------------------------------------------------------- data/staff.ts
\* the HASH_SECRET the staff map was generated with, and another one
BuildSecret == << "s","3","c","r","e","t" >>
OtherSecret == << "r","o","t","a","t","e","d" >>

\* staff-source.json
StaffSource ==
  { [ firstName |-> << "G","u","s" >>,
      email |-> << "g","u","s","@","r","p",".","o","r","g" >> ],
    [ firstName |-> << "K","a","t","h","y" >>,
      email |-> << "k","a","t","@","r","p",".","o","r","g" >> ] }

\* the generated map from hashed identifier to staff record
STAFF_BY_ID ==
  [ id \in { makeHashedId(e.firstName, BuildSecret) : e \in StaffSource } |->
      CHOOSE e \in StaffSource : makeHashedId(e.firstName, BuildSecret) = id ]

\* ------------------------------------------------- route.ts: sendSchema
\* z.string().email(): the address pattern of the schema library,
\* ^(?!\.)(?!.*\.\.)([A-Z0-9_'+\-\.]*)[A-Z0-9_+-]@([A-Z0-9][A-Z0-9\-]*\.)+[A-Z]{2,}$
\* matched case-insensitively
IsEmail(s) ==
  LET ats == { i \in 1..Len(s) : s[i] = "@" }
  IN /\ Cardinality(ats) = 1
     /\ LET p == CHOOSE i \in ats : TRUE
            dots == { i \in (p + 1)..Len(s) : s[i] = "." }
        IN /\ p > 1
           /\ s[1] # "."
           /\ \A i \in 1..(Len(s) - 1) : ~(s[i] = "." /\ s[i + 1] = ".")
           /\ \A i \in 1..(p - 1) : s[i] \in AlphaNum \cup { "_", "'", "+", "-", "." }
           /\ s[p - 1] \in AlphaNum \cup { "_", "+", "-" }
           /\ dots # {}
           /\ LET d == CHOOSE i \in dots : \A k \in dots : k <= i
              IN /\ p + 1 < d
                 /\ s[p + 1] \in AlphaNum
                 /\ \A i \in (p + 1)..(d - 1) : s[i] \in AlphaNum \cup { "-", "." }
                 /\ \A i \in dots : i < d => s[i + 1] \in AlphaNum
                 /\ Len(s) - d >= 2
                 /\ \A i \in (d + 1)..Len(s) : s[i] \in Letters

Has(body, field) == field \in DOMAIN body

\* z.string().min(n)
StringMin(text, n) == Len(text) >= n

\* z.string().max(n), off by one: the bound itself is refused
StringMax_exclusive(text, n) == Len(text) < n

\* z.string().max(n)
StringMax(text, n) == Len(text) <= n

\* the paths of the issues sendSchema.parse(body) raises
sendSchemaIssues(body) ==
  { f \in { "staffId" } :
      ~Has(body, f) \/ ~StringMin(body[f], StaffIdMin)
                    \/ ~StringMax(body[f], StaffIdMax) }
  \cup
  { f \in { "name" } :
      ~Has(body, f) \/ ~StringMin(body[f], NameMin)
                    \/ ~StringMax(body[f], NameMax) }
  \cup
  { f \in { "email" } :
      ~Has(body, f) \/ ~IsEmail(body[f]) \/ ~StringMax(body[f], EmailMax) }
  \cup
  { f \in { "subject" } :
      Has(body, f) /\ ~StringMax(body[f], SubjectMax) }
  \cup
  { f \in { "message" } :
      ~Has(body, f) \/ ~StringMin(body[f], MessageMin)
                    \/ ~StringMax(body[f], MessageMax) }

\* ----------------------------------------------- route.ts: sanitizeHtml
\* text.replace(/c/g, r)
RECURSIVE ReplaceEach(_, _, _)
ReplaceEach(text, c, r) ==
  IF Len(text) = 0 THEN <<>>
  ELSE IF Len(text) = 1 THEN (IF text[1] = c THEN r ELSE text)
  ELSE LET m == Len(text) \div 2
       IN ReplaceEach(SubSeq(text, 1, m), c, r)
            \o ReplaceEach(SubSeq(text, m + 1, Len(text)), c, r)

\* a text without a match is returned as it is
ReplaceAll(text, c, r) ==
  IF c \in Range(text) THEN ReplaceEach(text, c, r) ELSE text

\* sanitizeHtml without its last replacement
sanitizeHtml_noSlash(text) ==
  ReplaceAll(
    ReplaceAll(
      ReplaceAll(
        ReplaceAll(text, "<", << "&","l","t",";" >>),
        ">", << "&","g","t",";" >>),
      "\"", << "&","q","u","o","t",";" >>),
    "'", << "&","#","x","2","7",";" >>)

sanitizeHtml(text) ==
  ReplaceAll(
    ReplaceAll(
      ReplaceAll(
        ReplaceAll(
          ReplaceAll(text, "<", << "&","l","t",";" >>),
          ">", << "&","g","t",";" >>),
        "\"", << "&","q","u","o","t",";" >>),
      "'", << "&","#","x","2","7",";" >>),
    "/", << "&","#","x","2","F",";" >>)

\* a JavaScript string used as a condition: present and not empty
Truthy(payload, field) == Has(payload, field) /\ payload[field] # <<>>

\* -------------------------------------------------- route.ts: renderHtml
renderHtml(payload) ==
  LET sanitizedName == sanitizeHtml(payload.name)
      sanitizedMessage == sanitizeHtml(payload.message)
      subject == IF Truthy(payload, "subject")
                 THEN sanitizeHtml(payload.subject)
                 ELSE << "New message from " >> \o sanitizedName
  IN << "\n", "<!DOCTYPE html><html><head><meta charset=\"utf-8\"><title>" >>
     \o subject
     \o << "</title></head><body><div><h2>New Contact Form Submission</h2><div>",
           "<p><strong>From:</strong> " >>
     \o sanitizedName \o << " (" >> \o payload.email \o << ")</p>" >>
     \o (IF Truthy(payload, "subject")
         THEN << "<p><strong>Subject:</strong> " >> \o subject \o << "</p>" >>
         ELSE <<>>)
     \o << "</div><div><h3>Message:</h3>", "<p style=\"white-space: pre-wrap;\">" >>
     \o sanitizedMessage
     \o << "</p></div><div>",
           "<p><strong>Note:</strong> You can reply directly to this email to respond to " >>
     \o sanitizedName
     \o << ".</p></div></div></body></html>", "\n", " ", " " >>

\* -------------------------------------------------- route.ts: renderText
renderText(payload) ==
  Trim(
    << "\n", "New Contact Form Submission\n\nFrom: " >>
    \o payload.name \o << " (" >> \o payload.email \o << ")\n" >>
    \o (IF Truthy(payload, "subject")
        THEN << "Subject: " >> \o payload.subject
        ELSE <<>>)
    \o << "\n\nMessage:\n" >>
    \o payload.message
    \o << "\n\n---\nNote: You can reply directly to this email to respond to " >>
    \o payload.name
    \o << ".", "\n", " ", " " >>)

\* ------------------------------------------------------ route.ts: POST
SchemaFields == << "staffId", "name", "email", "subject", "message" >>

\* what console.error prints for a caught error: its name, and for a
\* ZodError the paths of its issues
Inspect(error) ==
  << error.name >> \o SelectSeq(SchemaFields, LAMBDA f : f \in error.issues)

SyntaxError == [ name |-> "SyntaxError", issues |-> {} ]
ZodError(issues) == [ name |-> "ZodError", issues |-> issues ]
MissingKeyError == [ name |-> "Error: Missing API key", issues |-> {} ]
NetworkError == [ name |-> "TypeError: fetch failed", issues |-> {} ]
ResendError == [ name |-> "ResendError", issues |-> {} ]

Json(status, body) == [ status |-> status, body |-> body ]
Failure(message) == [ ok |-> FALSE, error |-> << message >> ]

\* the unknown-staff response with a not-found status
InvalidStaffResponse_notFound == Json(404, Failure("Invalid staff ID"))

InvalidStaffResponse == Json(400, Failure("Invalid staff ID"))
SendFailedResponse == Json(500, Failure("Failed to send email"))
InvalidDataResponse == Json(400, Failure("Invalid request data"))
InternalErrorResponse == Json(500, Failure("Internal server error"))
OkResponse == Json(200, [ ok |-> TRUE ])

\* the catch block
Catch(error, sent) ==
  [ response |->
      IF error.name = "ZodError"
      THEN InvalidDataResponse
      ELSE InternalErrorResponse,
    sent |-> sent,
    log |-> << << "API error:" >> \o Inspect(error) >> ]

\* the argument of resend.emails.send with the two addresses exchanged
EmailMessage_swapped(payload, staffMember) ==
  [ to |-> payload.email,
    replyTo |-> staffMember.email,
    subject |-> IF Truthy(payload, "subject")
                THEN payload.subject
                ELSE << "New message from " >> \o payload.name,
    html |-> renderHtml(payload),
    text |-> renderText(payload) ]

\* the argument of resend.emails.send with the synthesized subject built
\* from the escaped name
EmailMessage_escapedSubject(payload, staffMember) ==
  [ to |-> staffMember.email,
    replyTo |-> payload.email,
    subject |-> IF Truthy(payload, "subject")
                THEN payload.subject
                ELSE << "New message from " >> \o sanitizeHtml(payload.name),
    html |-> renderHtml(payload),
    text |-> renderText(payload) ]

\* the argument of resend.emails.send
EmailMessage(payload, staffMember) ==
  [ to |-> staffMember.email,
    replyTo |-> payload.email,
    subject |-> IF Truthy(payload, "subject")
                THEN payload.subject
                ELSE << "New message from " >> \o payload.name,
    html |-> renderHtml(payload),
    text |-> renderText(payload) ]

\* a success line that names the recipient
SuccessLog_email(payload, staffMember) ==
  << "Email sent successfully to: " >> \o staffMember.email

\* the line logged after a send that returned without error
SuccessLog(payload, staffMember) ==
  << "Email sent successfully to staff ID: " >> \o payload.staffId

\* a second call after a provider error
SendCalls_retry(message, outcome) ==
  IF outcome = "error" THEN << message, message >> ELSE << message >>

\* the calls made to resend.emails.send when the provider answers outcome
SendCalls(message, outcome) == << message >>

\* the handler from request.json() to the returned response; raw is the
\* request body, apiKey tells whether RESEND_API_KEY is set and outcome is
\* what the provider does with a send
Handler(raw, apiKey, outcome) ==
  IF raw.syntax # "json" THEN Catch(SyntaxError, <<>>)
  ELSE LET issues == sendSchemaIssues(raw.fields) IN
  IF issues # {} THEN Catch(ZodError(issues), <<>>)
  ELSE LET payload == raw.fields IN
  IF payload.staffId \notin DOMAIN STAFF_BY_ID
  THEN [ response |-> InvalidStaffResponse,
         sent |-> <<>>, log |-> <<>> ]
  ELSE LET staffMember == STAFF_BY_ID[payload.staffId] IN
  IF ~apiKey THEN Catch(MissingKeyError, <<>>)
  ELSE LET sent == SendCalls(EmailMessage(payload, staffMember), outcome) IN
  IF outcome = "throw" THEN Catch(NetworkError, sent)
  ELSE IF outcome = "error"
  THEN [ response |-> SendFailedResponse,
         sent |-> sent,
         log |-> << << "Resend error:" >> \o Inspect(ResendError) >> ]
  ELSE [ response |-> OkResponse,
         sent |-> sent,
         log |-> << SuccessLog(payload, staffMember) >> ]

\* ----------------------------------------------------------- requests
GusId == makeHashedId(<< "G","u","s" >>, BuildSecret)
KathyId == makeHashedId(<< "K","a","t","h","y" >>, BuildSecret)

BaseBody ==
  [ staffId |-> GusId,
    name |-> << "A","n","n" >>,
    email |-> << "a","n","n","@","x",".","i","o" >>,
    message |-> << "H","i" >> ]

With(body, field, value) ==
  [ f \in DOMAIN body \cup { field } |-> IF f = field THEN value ELSE body[f] ]
Without(body, field) == [ f \in DOMAIN body \ { field } |-> body[f] ]

TextChars == { "w", "<", ">", "\"", "'", "/" }
Texts == TextsUpTo(TextChars, MaxText)

StaffIdInputs ==
  { KathyId, makeHashedId(<< "G","u","s" >>, OtherSecret),
    Fill("0", StaffIdMin - 1), Fill("0", StaffIdMin),
    Fill("0", StaffIdMax), Fill("0", StaffIdMax + 1) }
NameInputs == { <<>>, Fill("w", NameMax), Fill("w", NameMax + 1) }
EmailInputs ==
  { << "n","o","t","-","a","n","-","e","m","a","i","l" >>,
    << "o","'","w","@","x",".","i","o" >>,
    << "w","@","x" >>,
    Fill("w", EmailMax - 5) \o << "@","x",".","i","o" >>,
    Fill("w", EmailMax - 4) \o << "@","x",".","i","o" >> }
SubjectInputs == { <<>>, Fill("w", SubjectMax), Fill("w", SubjectMax + 1) }
MessageInputs == { <<>>, Fill("w", MessageMax), Fill("w", MessageMax + 1) }

\* bodies that probe the schema: the base body with one field changed
ValidationBodies ==
  { With(BaseBody, "staffId", v) : v \in StaffIdInputs }
  \cup { With(BaseBody, "name", v) : v \in NameInputs }
  \cup { With(BaseBody, "email", v) : v \in EmailInputs }
  \cup { With(BaseBody, "subject", v) : v \in SubjectInputs }
  \cup { With(BaseBody, "message", v) : v \in MessageInputs }
  \cup { Without(BaseBody, f) : f \in { "staffId", "name", "email", "message" } }

\* bodies that probe the rendering: free text in one field, or in all three
RenderBodies ==
  { With(BaseBody, f, t) : f \in { "name", "subject", "message" }, t \in Texts }
  \cup { With(With(With(BaseBody, "name", t), "subject", t), "message", t) :
           t \in Texts }

Bodies == { BaseBody } \cup ValidationBodies \cup RenderBodies

\* a body that parses as JSON, or one cut off in the middle
RawBodies ==
  { [ syntax |-> "json", fields |-> b ] : b \in Bodies }
  \cup { [ syntax |-> "malformed", fields |-> BaseBody ] }

Clients == { "ip1", "ip2" }
Outcomes == { "delivered", "error", "throw" }
Pairs == Clients \X DOMAIN STAFF_BY_ID

\* ---------------------------------------------------------------- state
VARIABLES
  apiKey,     \* whether RESEND_API_KEY is set in the environment
  request,    \* the request the handler ran on last
  outcome,    \* what the provider did with its send, "none" if not asked
  response,   \* the response the handler returned
  sent,       \* the calls the handler made to resend.emails.send
  log,        \* the lines the handler wrote to the console
  attempts    \* send attempts per source address and staffId in this window

vars == << apiKey, request, outcome, response, sent, log, attempts >>

NoRequest == [ ip |-> "none", raw |-> [ syntax |-> "none", fields |-> BaseBody ] ]

NoResponse == Json(0, [ ok |-> FALSE ])

Init ==
  /\ apiKey \in BOOLEAN
  /\ request = NoRequest
  /\ outcome = "none"
  /\ response = NoResponse
  /\ sent = <<>>
  /\ log = <<>>
  /\ attempts = [ p \in Pairs |-> 0 ]

\* one execution of the handler, from a request to its response; cap bounds the attempts counted in a window
POST(ip, raw, providerOutcome, cap) ==
  /\ request = NoRequest
  /\ \E r \in { Handler(raw, apiKey, providerOutcome) } :
    LET pair == << ip, raw.fields.staffId >>
    IN /\ r.sent # <<>> => attempts[pair] < cap
       /\ request' = [ ip |-> ip, raw |-> raw ]
       /\ outcome' = IF r.sent = <<>> THEN "none" ELSE providerOutcome
       /\ response' = r.response
       /\ sent' = r.sent
       /\ log' = r.log
       /\ attempts' = IF r.sent = <<>> THEN attempts
                      ELSE [ attempts EXCEPT ![pair] = @ + Len(r.sent) ]
       /\ UNCHANGED apiKey

\* the response has gone out and the locals of the execution are dropped
Complete ==
  /\ request # NoRequest
  /\ request' = NoRequest
  /\ outcome' = "none"
  /\ response' = NoResponse
  /\ sent' = <<>>
  /\ log' = <<>>
  /\ UNCHANGED << apiKey, attempts >>

\* a new one-minute window begins
Tick ==
  /\ attempts' = [ p \in Pairs |-> 0 ]
  /\ UNCHANGED << apiKey, request, outcome, response, sent, log >>

\* every request body, one client, a window that holds MaxBurst attempts
Next ==
  \/ \E raw \in RawBodies, o \in Outcomes : POST("ip1", raw, o, MaxBurst)
  \/ Complete
  \/ Tick

Spec == Init /\ [][Next]_vars

\* bodies for the rate window: two staff members and an unknown one
RateBodies ==
  { [ syntax |-> "json", fields |-> With(BaseBody, "staffId", v) ] :
      v \in { GusId, KathyId, Fill("0", StaffIdMin) } }

\* two clients, a window that holds MaxWindowSends attempts
NextRate ==
  \/ \E ip \in Clients, raw \in RateBodies, o \in Outcomes :
       POST(ip, raw, o, MaxWindowSends)
  \/ Complete
  \/ Tick

SpecRate == Init /\ [][NextRate]_vars

Handled == request.raw.syntax # "none"

\* ======================================================= properties

StaffEmails == { STAFF_BY_ID[id].email : id \in DOMAIN STAFF_BY_ID }
Specials == { "<", ">", "\"", "'", "/" }
Fields == request.raw.fields
IsJson == request.raw.syntax = "json"

\* the bounds as the validator's contract states them
ViolatesBounds(b) ==
  \/ ~Has(b, "staffId") \/ Len(b.staffId) < 8 \/ Len(b.staffId) > 128
  \/ ~Has(b, "name") \/ b.name = <<>> \/ Len(b.name) > 120
  \/ ~Has(b, "email") \/ ~IsEmail(b.email) \/ Len(b.email) > 254
  \/ (Has(b, "subject") /\ Len(b.subject) > 200)
  \/ ~Has(b, "message") \/ b.message = <<>> \/ Len(b.message) > 5000

\* C1: a JSON body that violates a validation bound is answered with HTTP
\* 400 and ok:false and no send is attempted; a body within the inclusive
\* bounds is not answered with the validation failure.
C1_ValidationRejects ==
  (Handled /\ IsJson) =>
    IF ViolatesBounds(Fields)
    THEN response.status = 400 /\ response.body.ok = FALSE /\ sent = <<>>
    ELSE /\ response # InvalidDataResponse
         /\ \A i \in 1..Len(log) : ~Contains(log[i], << "ZodError" >>)

\* a message one character over the bound was refused
C1_Witness ==
  /\ Handled /\ IsJson /\ Has(Fields, "message")
  /\ Len(Fields.message) = 5001
  /\ response.status = 400

\* C2: a validated submission whose staffId is not a key of the directory
\* is answered with HTTP 400 and {ok:false, error:"Invalid staff ID"} and
\* no send is attempted.
C2_UnknownStaff ==
  (Handled /\ IsJson /\ ~ViolatesBounds(Fields)
     /\ Fields.staffId \notin DOMAIN STAFF_BY_ID) =>
    /\ response.status = 400
    /\ response.body = [ ok |-> FALSE, error |-> << "Invalid staff ID" >> ]
    /\ sent = <<>>

\* the identifier of a staff member derived with another secret was refused
C2_Witness ==
  /\ Handled /\ IsJson /\ ~ViolatesBounds(Fields)
  /\ Fields.staffId = makeHashedId(<< "G","u","s" >>, OtherSecret)
  /\ Fields.staffId \notin DOMAIN STAFF_BY_ID
  /\ response.status = 400

\* C3: a submission with a malformed staffId gets the same response as the
\* same submission with a well-formed staffId that is absent from the
\* directory.
C3_Opacity ==
  (Handled /\ IsJson /\ Has(Fields, "staffId") /\ Len(Fields.staffId) < 8
     /\ ~ViolatesBounds(With(Fields, "staffId", GusId))) =>
    \A id \in StaffIdInputs, o \in Outcomes :
      (Len(id) >= 8 /\ Len(id) <= 128 /\ id \notin DOMAIN STAFF_BY_ID) =>
        response = Handler([ syntax |-> "json",
                             fields |-> With(Fields, "staffId", id) ],
                           apiKey, o).response

\* C4: every send goes to the email of the directory record stored under
\* the submission's staffId with the submitter's email as replyTo, and no
\* response body contains a staff email address.
C4_Addressing ==
  Handled =>
    /\ \A i \in 1..Len(sent) :
         /\ sent[i].to = STAFF_BY_ID[Fields.staffId].email
         /\ sent[i].replyTo = Fields.email
    /\ DOMAIN response.body \subseteq { "ok", "error" }
    /\ Has(response.body, "error") =>
         \A e \in StaffEmails : ~Contains(response.body.error, e)

\* a message for the second staff member was handed to the provider
C4_Witness ==
  /\ Handled /\ sent # <<>>
  /\ Fields.staffId = KathyId
  /\ sent[1].to # Fields.email

\* C5: an execution of the handler calls the email collaborator at most
\* once, and when that call reports an error the handler answers HTTP 500
\* with ok:false without a second call.
C5_SingleAttempt ==
  /\ Len(sent) <= 1
  /\ outcome = "error" =>
       /\ Len(sent) = 1
       /\ response.status = 500
       /\ response.body.ok = FALSE

\* the provider reported an error for the one call
C5_Witness ==
  /\ Handled /\ outcome = "error" /\ Len(sent) = 1 /\ response.status = 500

\* the response classes of the endpoint's interface
InvalidInput ==
  request.raw.syntax # "json" \/ ViolatesBounds(Fields)
UnknownStaff ==
  ~InvalidInput /\ Fields.staffId \notin DOMAIN STAFF_BY_ID

\* C6: every POST ends in one response: {ok:true} with HTTP 200 only when a
\* send was attempted and returned without error; HTTP 400 with ok:false for
\* invalid input, a body that is not valid JSON included, or unknown staff;
\* HTTP 500 with ok:false for a missing API key or a delivery failure; any
\* other failure is answered with the generic internal-error response.
C6_ResponseClasses ==
  Handled =>
    /\ response.status \in { 200, 400, 500 }
    /\ response.status = 200 <=> response.body = [ ok |-> TRUE ]
    /\ response.status = 200 => (Len(sent) = 1 /\ outcome = "delivered")
    /\ response.status # 200 =>
         (DOMAIN response.body = { "ok", "error" } /\ response.body.ok = FALSE)
    /\ (InvalidInput \/ UnknownStaff) => response.status = 400
    /\ (~InvalidInput /\ ~UnknownStaff /\ (~apiKey \/ outcome = "error")) =>
         response.status = 500
    /\ outcome = "throw" =>
         response = Json(500, [ ok |-> FALSE,
                                error |-> << "Internal server error" >> ])

Entity(c) ==
  CASE c = "<" -> << "&","l","t",";" >>
    [] c = ">" -> << "&","g","t",";" >>
    [] c = "\"" -> << "&","q","u","o","t",";" >>
    [] c = "'" -> << "&","#","x","2","7",";" >>
    [] c = "/" -> << "&","#","x","2","F",";" >>
    [] OTHER -> << c >>

\* every character replaced by its entity, in one pass
RECURSIVE Escaped(_)
Escaped(text) ==
  IF Specials \cap Range(text) = {} THEN text
  ELSE IF Len(text) = 1 THEN Entity(text[1])
  ELSE LET m == Len(text) \div 2
       IN Escaped(SubSeq(text, 1, m)) \o Escaped(SubSeq(text, m + 1, Len(text)))

\* C8: the HTML body embeds name, subject and message with <, >, ", ' and /
\* replaced by their entities, so that none of the five characters reaches
\* the HTML body from those fields, and the plain-text body embeds the same
\* fields as submitted.
C8_Escaping ==
  \A i \in 1..Len(sent) :
    LET html == sent[i].html
        text == sent[i].text
    IN /\ Contains(html, << "<p><strong>From:</strong> " >>
                           \o Escaped(Fields.name) \o << " (" >>)
       /\ Contains(html, << "<p style=\"white-space: pre-wrap;\">" >>
                           \o Escaped(Fields.message) \o << "</p></div><div>" >>)
       /\ Contains(html,
            << "<p><strong>Note:</strong> You can reply directly to this email to respond to " >>
              \o Escaped(Fields.name) \o << ".</p></div></div></body></html>" >>)
       /\ (Has(Fields, "subject") /\ Fields.subject # <<>>) =>
            Contains(html, << "<p><strong>Subject:</strong> " >>
                             \o Escaped(Fields.subject) \o << "</p>" >>)
       /\ Specials \cap Range(Fields.email) = {} =>
            Specials \cap Range(html) = {}
       /\ Contains(text, << "New Contact Form Submission\n\nFrom: " >>
                           \o Fields.name \o << " (" >>)
       /\ Contains(text, << "\n\nMessage:\n" >> \o Fields.message
                           \o << "\n\n---\nNote: You can reply directly to this email to respond to " >>
                           \o Fields.name \o << "." >>)
       /\ (Has(Fields, "subject") /\ Fields.subject # <<>>) =>
            Contains(text, << "Subject: " >> \o Fields.subject
                             \o << "\n\nMessage:\n" >>)

\* a message whose name, subject and message all carry a slash and a quote
\* was rendered
C8_Witness ==
  /\ Handled /\ sent # <<>> /\ Has(Fields, "subject")
  /\ Fields.name = << "/", "'" >>
  /\ Fields.subject = Fields.name /\ Fields.message = Fields.name

\* C9: every user-supplied field that renderHtml embeds, the submitter's
\* email address included, passes through sanitizeHtml first.
C9_AllInputsSanitized ==
  \A i \in 1..Len(sent) :
    /\ Contains(sent[i].html, << "<p><strong>From:</strong> " >>
                  \o sanitizeHtml(Fields.name) \o << " (" >>
                  \o sanitizeHtml(Fields.email) \o << ")</p>" >>)
    /\ Contains(sent[i].html, << "<p style=\"white-space: pre-wrap;\">" >>
                  \o sanitizeHtml(Fields.message) \o << "</p></div><div>" >>)

\* C10: within one window no more than RateLimit sends are attempted for
\* one source address and staffId; a further request is rejected first.
C10_RateLimited ==
  \A p \in Pairs : attempts[p] <= RateLimit

\* the subject header synthesized from the name as submitted
SynthesizedSubject == << "New message from " >> \o Fields.name

\* C11: the subject header is the provided subject whenever the payload
\* carries a subject field, an empty string included, and otherwise the
\* string "New message from {name}" built from the unescaped name.
C11_SubjectWhenPresent ==
  \A i \in 1..Len(sent) :
    sent[i].subject =
      IF Has(Fields, "subject") THEN Fields.subject ELSE SynthesizedSubject

\* C11 (amended): the subject header is the provided subject when the
\* payload carries a non-empty subject; when the subject is absent or the
\* empty string it is "New message from {name}" built from the unescaped
\* name, and the escaped name appears only in the HTML body, whose title
\* then reads "New message from {escaped name}".
C11_SubjectWhenNonEmpty ==
  \A i \in 1..Len(sent) :
    IF Has(Fields, "subject") /\ Fields.subject # <<>>
    THEN sent[i].subject = Fields.subject
    ELSE /\ sent[i].subject = SynthesizedSubject
         /\ Contains(sent[i].html,
              << "<!DOCTYPE html><html><head><meta charset=\"utf-8\"><title>",
                 "New message from " >>
                \o Escaped(Fields.name)
                \o << "</title></head><body><div><h2>New Contact Form Submission</h2><div>" >>)

\* a submission with the subject field sent as the empty string went out
\* under the synthesized subject
C11_Witness ==
  /\ Handled /\ sent # <<>>
  /\ Has(Fields, "subject") /\ Fields.subject = <<>>
  /\ sent[1].subject = SynthesizedSubject

====
